---- MODULE Spec2Model ----
(***************************************************************************)
(* Model of the aviagent tool-call mediation layer: the tool catalog, the   *)
(* web server's chat handlers and dispatch loop, the two model adapters'    *)
(* response normalisation and the Avi API client with its response cache.   *)
(***************************************************************************)
EXTENDS Integers, Sequences, FiniteSets, TLC

(***************************************************************************)
(* Bounds of the model and program constants                                *)
(***************************************************************************)
\* longest tool-call list a model reply carries
MaxCalls == 2
\* number of clock ticks a behaviour may take
MaxTicks == 3
\* cache TTL in seconds: newCache(30 * time.Second)
CacheTTL == 30
\* the clock advances in steps of half a TTL
TickStep == CacheTTL \div 2

(***************************************************************************)
(* Go maps: a map[string]interface{} is a set of <<key, type, value>>       *)
(* triples with unique keys, wrapped with a nil flag; a map[string]string   *)
(* is a set of <<key, value>> pairs.                                        *)
(***************************************************************************)
NilArgs == [nil |-> TRUE, kv |-> {}]
MkArgs(kv) == [nil |-> FALSE, kv |-> kv]
\* toolCall.Args[key].(string): the value and ok
HasString(args, key) == \E e \in args.kv : e[1] = key /\ e[2] = "string"
GetString(args, key) == (CHOOSE e \in args.kv : e[1] = key /\ e[2] = "string")[3]
HasKey(args, key) == \E e \in args.kv : e[1] = key
\* delete(toolCall.Args, key); a no-op on a nil map
DeleteKey(args, key) == [args EXCEPT !.kv = {e \in args.kv : e[1] # key}]
\* every argument becomes a query parameter, a non-string one by its text
StringParamsCoerced(args) == {<<e[1], e[3]>> : e \in args.kv}
\* for key, value := range toolCall.Args { if str, ok := value.(string) ... }
StringParams(args) == {<<e[1], e[3]>> : e \in {x \in args.kv : x[2] = "string"}}
\* the optional "fields" parameter of the get tools
FieldsParam(args) ==
  IF HasString(args, "fields") THEN {<<"fields", GetString(args, "fields")>>} ELSE {}

(***************************************************************************)
(* Tool catalog                                                             *)
(***************************************************************************)
GetAviToolDefinitions ==
  << [name |-> "list_virtual_services", required |-> {}],
     [name |-> "get_virtual_service", required |-> {"uuid"}],
     [name |-> "create_virtual_service", required |-> {"name"}],
     [name |-> "update_virtual_service", required |-> {"uuid"}],
     [name |-> "delete_virtual_service", required |-> {"uuid"}],
     [name |-> "list_pools", required |-> {}],
     [name |-> "get_pool", required |-> {"uuid"}],
     [name |-> "create_pool", required |-> {"name"}],
     [name |-> "scale_out_pool", required |-> {"uuid"}],
     [name |-> "scale_in_pool", required |-> {"uuid"}],
     [name |-> "list_health_monitors", required |-> {}],
     [name |-> "get_health_monitor", required |-> {"uuid"}],
     [name |-> "list_service_engines", required |-> {}],
     [name |-> "get_service_engine", required |-> {"uuid"}],
     [name |-> "get_analytics", required |-> {"resource_type", "uuid"}],
     [name |-> "execute_generic_operation", required |-> {"method", "endpoint"}] >>

\* the names appended to a slice that already holds len(tools) empty strings
GetToolNamesAppended ==
  [i \in 1..(2 * Len(GetAviToolDefinitions)) |->
     IF i <= Len(GetAviToolDefinitions) THEN ""
     ELSE GetAviToolDefinitions[i - Len(GetAviToolDefinitions)].name]

GetToolNames ==
  [i \in 1..Len(GetAviToolDefinitions) |-> GetAviToolDefinitions[i].name]

CatalogNames == {GetToolNames[i] : i \in 1..Len(GetToolNames)}
RequiredOf(name) ==
  GetAviToolDefinitions[CHOOSE i \in 1..Len(GetAviToolDefinitions) :
                          GetAviToolDefinitions[i].name = name].required

(***************************************************************************)
(* Avi API client (Gateway)                                                 *)
(***************************************************************************)
\* every parameter name of the model, in the order sort.Strings gives
KeyOrder ==
  << "endpoint", "fields", "flag", "method", "metric", "name", "parameters",
     "resource_type", "uuid" >>

SortedKeys(params) == SelectSeq(KeyOrder, LAMBDA k : \E p \in params : p[1] = k)
ParamValue(params, k) == (CHOOSE p \in params : p[1] = k)[2]

RECURSIVE ParamStr(_, _)
ParamStr(keys, params) ==
  IF keys = << >> THEN ""
  ELSE Head(keys) \o "=" \o ParamValue(params, Head(keys)) \o "&"
       \o ParamStr(Tail(keys), params)

getCacheKey(method, endpoint, params) ==
  method \o ":" \o endpoint \o "?" \o ParamStr(SortedKeys(params), params)

NoData == [nil |-> TRUE, kind |-> "none", src |-> ""]
Data(kind, src) == [nil |-> FALSE, kind |-> kind, src |-> src]

EmptyStore == [k \in {} |-> [data |-> NoData, expiresAt |-> 0]]

\* the lookup's result and the store it leaves behind
getFromCache(store, key, t) ==
  IF key \notin DOMAIN store
  THEN [ok |-> FALSE, data |-> NoData, store |-> store]
  ELSE IF t > store[key].expiresAt
       THEN [ok |-> FALSE, data |-> NoData,
             store |-> [k \in DOMAIN store \ {key} |-> store[k]]]
       ELSE [ok |-> TRUE, data |-> store[key].data, store |-> store]

setCache(store, key, data, t) ==
  [k \in DOMAIN store \cup {key} |->
     IF k = key THEN [data |-> data, expiresAt |-> t + CacheTTL] ELSE store[k]]

NoSession == [valid |-> FALSE, SessionID |-> "", CSRFToken |-> ""]
TheSession == [valid |-> TRUE, SessionID |-> "sid", CSRFToken |-> "csrf"]

\* what the controller (or the transport) answers to one request
Replies ==
  { [transport |-> TRUE, status |-> 0, body |-> "empty"],
    [transport |-> FALSE, status |-> 200, body |-> "json"],
    [transport |-> FALSE, status |-> 200, body |-> "garbage"],
    [transport |-> FALSE, status |-> 200, body |-> "empty"],
    [transport |-> FALSE, status |-> 201, body |-> "json"],
    [transport |-> FALSE, status |-> 204, body |-> "empty"],
    [transport |-> FALSE, status |-> 404, body |-> "json"],
    [transport |-> FALSE, status |-> 500, body |-> "json"] }

\* config.AviConfig.Version and Tenant
AviVersion == "31.2.1"
AviTenant == "admin"

\* an optional header or cookie: absent, or set to v
Absent == << >>
Set(v) == << v >>
NoWire ==
  [kind |-> "none", cookie |-> Absent, csrf |-> Absent, version |-> Absent,
   tenant |-> Absent, ctx |-> "none"]

\* the request carries no session cookie
ApiRequestNoCookie(sess) ==
  [kind |-> "api",
   cookie |-> Absent,
   csrf |-> IF sess.CSRFToken # "" THEN Set(sess.CSRFToken) ELSE Absent,
   version |-> Set(AviVersion),
   tenant |-> Set(AviTenant),
   ctx |-> "caller"]

\* the headers and the cookie makeRequest puts on a request, built with
\* http.NewRequestWithContext on the context the operation was called with
ApiRequest(sess) ==
  [kind |-> "api",
   cookie |-> Set(sess.SessionID),
   csrf |-> IF sess.CSRFToken # "" THEN Set(sess.CSRFToken) ELSE Absent,
   version |-> Set(AviVersion),
   tenant |-> Set(AviTenant),
   ctx |-> "caller"]

\* makeRequest: fails before sending when there is no session, else sends once
makeRequest(sess, reply) ==
  IF ~sess.valid THEN [err |-> "not authenticated", sent |-> 0, req |-> NoWire]
  ELSE IF reply.transport
       THEN [err |-> "API request failed", sent |-> 1, req |-> ApiRequest(sess)]
  ELSE [err |-> "", sent |-> 1, req |-> ApiRequest(sess)]

\* the outcome of a Gateway operation
GwResult(res, err, sent, store) ==
  [res |-> res, err |-> err, sent |-> sent, store |-> store]

\* the common tail of the typed operations: status check, then JSON decode
TypedCall(sess, store, reply, okStatus, kind, endpoint) ==
  LET rq == makeRequest(sess, reply) IN
  IF rq.err # "" THEN GwResult(NoData, rq.err, rq.sent, store)
  ELSE IF reply.status \notin okStatus
       THEN GwResult(NoData, "request failed with status", 1, store)
  ELSE IF reply.body # "json"
       THEN GwResult(NoData, "failed to decode response", 1, store)
  ELSE GwResult(Data(kind, endpoint), "", 1, store)

\* a list operation that consults the cache first and fills it on success
\* the cached list operation, with whatever came back written to the cache
CachedListCachesFailures(sess, store, t, params, reply, endpoint) ==
  LET key == getCacheKey("GET", endpoint, params)
      c == getFromCache(store, key, t)
  IN IF c.ok THEN GwResult(c.data, "", 0, c.store)
     ELSE LET r == TypedCall(sess, c.store, reply, {200}, "page", endpoint)
          IN [r EXCEPT !.store = setCache(c.store, key, r.res, t)]

\* ListVirtualServices and ListPools: the lookup, the request, the cache write
CachedList(sess, store, t, params, reply, endpoint) ==
  LET key == getCacheKey("GET", endpoint, params)
      c == getFromCache(store, key, t)
  IN IF c.ok THEN GwResult(c.data, "", 0, c.store)
     ELSE LET r == TypedCall(sess, c.store, reply, {200}, "page", endpoint)
          IN IF r.err # "" THEN r
             ELSE [r EXCEPT !.store = setCache(c.store, key, r.res, t)]

ListVirtualServices(sess, store, t, params, reply) ==
  CachedList(sess, store, t, params, reply, "/virtualservice")

ListPools(sess, store, t, params, reply) ==
  CachedList(sess, store, t, params, reply, "/pool")

ListHealthMonitors(sess, store, t, params, reply) ==
  TypedCall(sess, store, reply, {200}, "page", "/healthmonitor")

ListServiceEngines(sess, store, t, params, reply) ==
  TypedCall(sess, store, reply, {200}, "page", "/serviceengine")

\* GetVirtualService, GetPool, GetHealthMonitor, GetServiceEngine, GetAnalytics
GetObject(sess, store, reply, endpoint) ==
  TypedCall(sess, store, reply, {200}, "object", endpoint)

CreateVirtualService(sess, store, reply) ==
  TypedCall(sess, store, reply, {201, 200}, "object", "/virtualservice")

UpdateVirtualService(sess, store, reply, uuid) ==
  TypedCall(sess, store, reply, {200}, "object", "/virtualservice/" \o uuid)

CreatePool(sess, store, reply) ==
  TypedCall(sess, store, reply, {201, 200}, "object", "/pool")

\* NoBodyCall with the cache dropped on a successful mutation
NoBodyCallInvalidates(sess, store, reply, okStatus, failure) ==
  LET rq == makeRequest(sess, reply) IN
  IF rq.err # "" THEN GwResult(NoData, rq.err, rq.sent, store)
  ELSE IF reply.status \notin okStatus THEN GwResult(NoData, failure, 1, store)
  ELSE GwResult(NoData, "", 1, EmptyStore)

\* the operations that return only an error: status check, no decode
NoBodyCall(sess, store, reply, okStatus, failure) ==
  LET rq == makeRequest(sess, reply) IN
  IF rq.err # "" THEN GwResult(NoData, rq.err, rq.sent, store)
  ELSE IF reply.status \notin okStatus THEN GwResult(NoData, failure, 1, store)
  ELSE GwResult(NoData, "", 1, store)

DeleteVirtualService(sess, store, reply) ==
  NoBodyCall(sess, store, reply, {204, 200}, "request failed with status")

ScaleOutPool(sess, store, reply) ==
  NoBodyCall(sess, store, reply, {200}, "scale out failed with status")

ScaleInPool(sess, store, reply) ==
  NoBodyCall(sess, store, reply, {200}, "scale in failed with status")

\* strings.HasPrefix(endpoint, "/") on the endpoints of the model
HasSlashPrefix(endpoint) == endpoint \in {"/pool"}

ExecuteGenericOperation(sess, store, reply, endpoint) ==
  LET ep == IF HasSlashPrefix(endpoint) THEN endpoint ELSE "/" \o endpoint
      rq == makeRequest(sess, reply)
  IN IF rq.err # "" THEN GwResult(NoData, rq.err, rq.sent, store)
     ELSE IF reply.status < 200 \/ reply.status >= 300
          THEN GwResult(NoData, "request failed with status", 1, store)
     ELSE IF reply.body = "empty" THEN GwResult(NoData, "", 1, store)
     ELSE IF reply.body = "json" THEN GwResult(Data("json", ep), "", 1, store)
     ELSE GwResult(Data("raw", ep), "", 1, store)

(***************************************************************************)
(* Dispatch: Server.executeToolCall                                         *)
(***************************************************************************)
\* the Gateway operation called, what it returned, and the call's argument map
\* as the dispatcher leaves it
Exec(gw, op, params, args) ==
  [res |-> gw.res, err |-> gw.err, op |-> op, sent |-> gw.sent,
   store |-> gw.store, params |-> params, args |-> args]

\* an invocation refused before any Gateway operation is called
Refuse(err, store, args) ==
  [res |-> NoData, err |-> err, op |-> "none", sent |-> 0,
   store |-> store, params |-> {}, args |-> args]

\* the get tools: uuid required, "fields" optional
GetTool(call, sess, store, reply, op, prefix) ==
  IF ~HasString(call.args, "uuid")
  THEN Refuse("uuid parameter required", store, call.args)
  ELSE Exec(GetObject(sess, store, reply, prefix \o GetString(call.args, "uuid")),
            op, FieldsParam(call.args), call.args)

GetAnalyticsTool(call, sess, store, reply) ==
  IF ~HasString(call.args, "resource_type")
  THEN Refuse("resource_type parameter required", store, call.args)
  ELSE IF ~HasString(call.args, "uuid")
  THEN Refuse("uuid parameter required", store, call.args)
  ELSE Exec(GetObject(sess, store, reply,
                      "/analytics/" \o GetString(call.args, "resource_type")
                        \o "/" \o GetString(call.args, "uuid")),
            "GetAnalytics",
            {<<e[1], e[3]>> : e \in {x \in call.args.kv :
                 x[1] \in {"metric", "time_range"} /\ x[2] = "string"}},
            call.args)

GenericTool(call, sess, store, reply) ==
  IF ~HasString(call.args, "method")
  THEN Refuse("method parameter required", store, call.args)
  ELSE IF ~HasString(call.args, "endpoint")
  THEN Refuse("endpoint parameter required", store, call.args)
  ELSE Exec(ExecuteGenericOperation(sess, store, reply,
                                    GetString(call.args, "endpoint")),
            "ExecuteGenericOperation", {}, call.args)

\* update_virtual_service, scale_out_pool, scale_in_pool: uuid required and
\* removed from the argument map before the map is sent as the body
UuidBodyTool(call, store, gw, op) ==
  IF ~HasString(call.args, "uuid")
  THEN Refuse("uuid parameter required", store, call.args)
  ELSE Exec(gw, op, {}, DeleteKey(call.args, "uuid"))

\* an unknown name handed to the generic operation instead of being refused
UnknownToolPassedOn(call, sess, store, reply) ==
  Exec(ExecuteGenericOperation(sess, store, reply, "/pool"),
       "ExecuteGenericOperation", {}, call.args)

\* the default case of the switch
UnknownTool(call, sess, store, reply) == Refuse("unknown tool", store, call.args)

executeToolCall(call, sess, store, t, reply) ==
  LET n == call.name
      a == call.args
  IN CASE n = "list_virtual_services" ->
            Exec(ListVirtualServices(sess, store, t, StringParams(a), reply),
                 "ListVirtualServices", StringParams(a), a)
       [] n = "get_virtual_service" ->
            GetTool(call, sess, store, reply, "GetVirtualService", "/virtualservice/")
       [] n = "create_virtual_service" ->
            Exec(CreateVirtualService(sess, store, reply), "CreateVirtualService", {}, a)
       [] n = "update_virtual_service" ->
            UuidBodyTool(call, store,
                         UpdateVirtualService(sess, store, reply, GetString(a, "uuid")),
                         "UpdateVirtualService")
       [] n = "delete_virtual_service" ->
            IF ~HasString(a, "uuid") THEN Refuse("uuid parameter required", store, a)
            ELSE Exec(DeleteVirtualService(sess, store, reply),
                      "DeleteVirtualService", {}, a)
       [] n = "list_pools" ->
            Exec(ListPools(sess, store, t, StringParams(a), reply),
                 "ListPools", StringParams(a), a)
       [] n = "get_pool" -> GetTool(call, sess, store, reply, "GetPool", "/pool/")
       [] n = "create_pool" -> Exec(CreatePool(sess, store, reply), "CreatePool", {}, a)
       [] n = "scale_out_pool" ->
            UuidBodyTool(call, store, ScaleOutPool(sess, store, reply), "ScaleOutPool")
       [] n = "scale_in_pool" ->
            UuidBodyTool(call, store, ScaleInPool(sess, store, reply), "ScaleInPool")
       [] n = "list_health_monitors" ->
            Exec(ListHealthMonitors(sess, store, t, StringParams(a), reply),
                 "ListHealthMonitors", StringParams(a), a)
       [] n = "get_health_monitor" ->
            GetTool(call, sess, store, reply, "GetHealthMonitor", "/healthmonitor/")
       [] n = "list_service_engines" ->
            Exec(ListServiceEngines(sess, store, t, StringParams(a), reply),
                 "ListServiceEngines", StringParams(a), a)
       [] n = "get_service_engine" ->
            GetTool(call, sess, store, reply, "GetServiceEngine", "/serviceengine/")
       [] n = "get_analytics" -> GetAnalyticsTool(call, sess, store, reply)
       [] n = "execute_generic_operation" -> GenericTool(call, sess, store, reply)
       [] OTHER -> UnknownTool(call, sess, store, reply)

(***************************************************************************)
(* Model adapters: what the backend replies and how it is normalised        *)
(***************************************************************************)
\* the assistant message content, by what the adapters look at
Content(text, valid, object, hasTool, tool, hasParams, params) ==
  [text |-> text, valid |-> valid, object |-> object, hasTool |-> hasTool,
   tool |-> tool, hasParams |-> hasParams, params |-> params]
Prose(text) == Content(text, FALSE, FALSE, FALSE, "", FALSE, {})
JsonTool(tool, hasParams, params) ==
  Content("json", TRUE, TRUE, TRUE, tool, hasParams, params)

Str(k, v) == <<k, "string", v>>

\* argument maps a model proposes for each kind of tool
ListArgs == { {}, {Str("fields", "f"), <<"flag", "bool", "true">>} }
UuidArgs ==
  { {}, {Str("uuid", "u1")}, {<<"uuid", "number", "7">>},
    {Str("uuid", "u1"), Str("fields", "f")}, {Str("uuid", "u1"), Str("name", "n")} }
CreateArgs == { {}, {Str("name", "n")} }
AnalyticsArgs ==
  { {Str("resource_type", "pool")}, {Str("uuid", "u1")},
    {Str("resource_type", "pool"), Str("uuid", "u1"), Str("metric", "m")} }
GenericArgs ==
  { {Str("method", "GET")}, {Str("endpoint", "/pool")},
    {Str("method", "GET"), Str("endpoint", "/pool")},
    {Str("method", "GET"), Str("endpoint", "pool")} }

ListTools ==
  {"list_virtual_services", "list_pools", "list_health_monitors", "list_service_engines"}
CreateTools == {"create_virtual_service", "create_pool"}
UnknownTools == {"restart_controller"}

ArgsFor(tool) ==
  IF tool \in ListTools THEN ListArgs
  ELSE IF tool \in CreateTools THEN CreateArgs
  ELSE IF tool = "get_analytics" THEN AnalyticsArgs
  ELSE IF tool = "execute_generic_operation" THEN GenericArgs
  ELSE IF tool \in UnknownTools THEN { {} }
  ELSE UuidArgs

\* contents the local model may answer with
OllamaContents ==
  {Prose("I cannot help with that."),
   Content("42", TRUE, FALSE, FALSE, "", FALSE, {}),
   Content("json", TRUE, TRUE, FALSE, "", FALSE, {})}
  \cup {JsonTool(n, FALSE, {}) : n \in CatalogNames \cup UnknownTools}
  \cup UNION { {JsonTool(n, TRUE, kv) : kv \in ArgsFor(n)} :
                n \in CatalogNames \cup UnknownTools }

\* the "parameters" member is never read
extractToolCallsNoArgs(content) ==
  IF content.valid /\ content.object /\ content.hasTool
  THEN << [name |-> content.tool, arguments |-> content.text, args |-> NilArgs] >>
  ELSE << >>

\* llm.Client.extractToolCalls
extractToolCalls(content) ==
  IF content.valid /\ content.object /\ content.hasTool
  THEN << [name |-> content.tool,
           arguments |-> content.text,
           args |-> IF content.hasParams THEN MkArgs(content.params) ELSE NilArgs] >>
  ELSE << >>

\* the message dropped when the content parses as JSON
processLLMResponseDropsJson(content, model) ==
  [Message |-> [text |-> IF content.valid THEN Prose("") ELSE content,
                blocks |-> << >>],
   ToolCalls |-> extractToolCalls(content),
   Model |-> model]

\* llm.Client.processLLMResponse
processLLMResponse(content, model) ==
  [Message |-> [text |-> content, blocks |-> << >>],
   ToolCalls |-> extractToolCalls(content),
   Model |-> model]

\* tool names the cloud model proposes in replies with several tool calls: one
\* of each branch shape of executeToolCall
SeqTools ==
  {"list_virtual_services", "list_health_monitors", "create_virtual_service",
   "get_virtual_service", "scale_out_pool", "restart_controller"}

RECURSIVE SeqsOver(_, _)
SeqsOver(S, n) ==
  IF n = 0 THEN { << >> }
  ELSE LET shorter == SeqsOver(S, n - 1)
       IN shorter \cup {Append(q, x) : q \in {r \in shorter : Len(r) = n - 1}, x \in S}

\* a wire tool call of the cloud model: function.name, function.arguments and
\* the "args" member
WireCall(n) ==
  [name |-> n, arguments |-> "{uuid: u1}", args |-> MkArgs({Str("uuid", "u1")})]
WireCalls(names) == [i \in 1..Len(names) |-> WireCall(names[i])]

MistralToolCallLists ==
  {WireCalls(q) : q \in SeqsOver(CatalogNames \cup UnknownTools, 1)
                         \cup SeqsOver(SeqTools, MaxCalls)}

MistralTexts == {Prose(""), Prose("I will look that up.")}

\* mistral.convertMistralToolCalls
convertMistralToolCalls(calls) ==
  [i \in 1..Len(calls) |->
     [name |-> calls[i].name, arguments |-> calls[i].arguments, args |-> NilArgs]]

\* mistral.Client.processLLMResponse followed by the conversion of
\* ProcessNaturalLanguageQuery
mistralResponse(content, calls, model) ==
  [Message |-> [text |-> content, blocks |-> << >>],
   ToolCalls |-> convertMistralToolCalls(calls),
   Model |-> model]

\* config.LLM.DefaultModel, which both handlers fall back to
DefaultModel == "llama3.2"
\* model names a request may carry; the empty name asks for the default
RequestModels == {"", "llama3.2", "mistral-tiny"}

\* Client.ValidateModel over the list ListModels returned
ValidateModel(models, modelName) == \E m \in models : m = modelName

(***************************************************************************)
(* State                                                                    *)
(***************************************************************************)
VARIABLES
  provider,     \* config.Provider, fixed at construction
  session,      \* avi.Client.session
  store,        \* avi.Client.cache.store
  now,          \* time.Now(), in seconds
  pc,           \* where the request being served stands
  handler,      \* which handler serves it: "json" or "htmx"
  reqModel,     \* the model name of the request, after defaulting
  llmResponse,  \* the *llm.LLMResponse of processChatMessage
  origText,     \* the content the model answered with
  idx,          \* position of the dispatch loop in llmResponse.ToolCalls
  httpResp,     \* what the handler answered
  llmLog,       \* calls made to the model backend while serving the request
  execLog,      \* one entry per invocation the dispatch loop has handled
  gwCall,       \* the last Gateway operation a direct caller made
  catName,      \* GetToolByName: the name looked up
  catIdx,       \* GetToolByName: position of its loop
  catRes,       \* GetToolByName: its result
  client,       \* the avi.Client as NewClient and Close leave it
  wire,         \* the request the last Gateway step put on the wire
  adCall,       \* the last adapter function applied, its input and output
  boot,         \* config loading and NewServer: the config, the error, the adapters
  procs         \* goroutines inside one Gateway operation, each with its locals

\* the models the configured provider's backend lists
BackendModels == IF provider = "ollama" THEN {"llama3.2"} ELSE {"mistral-tiny"}

serverVars ==
  << provider, session, store, now, pc, handler, reqModel, llmResponse,
     origText, idx, httpResp, llmLog, execLog >>
catVars == << catName, catIdx, catRes >>
extVars == << client, wire, adCall >>
auxVars == << boot, procs >>
vars == << serverVars, gwCall, catVars, extVars, auxVars >>

NoResponse == [Message |-> [text |-> Prose(""), blocks |-> << >>],
               ToolCalls |-> << >>, Model |-> ""]
NoHttp == [status |-> 0, error |-> "", body |-> NoResponse]
HttpError(status, error) == [status |-> status, error |-> error, body |-> NoResponse]
HttpOK(resp) == [status |-> 200, error |-> "", body |-> resp]
\* the adapter of a provider
AdapterOf(p) == IF p = "mistral" THEN "mistral.Client" ELSE "llm.Client"
\* a config that passes validateConfig for the provider
ValidConfig(p) ==
  [Provider |-> p, APIKey |-> IF p = "mistral" THEN "key" ELSE "", AviHost |-> "avi"]
\* the Server NewServer returns for a config: its llmClient and mistralClient
ServerOf(cfg) ==
  [state |-> "serving", cfg |-> cfg, err |-> "",
   llmClient |-> AdapterOf(cfg.Provider),
   mistralClient |-> IF cfg.Provider = "mistral" THEN "mistral.Client" ELSE "nil"]
NoProcs == << >>

\* a call to the model backend and how it ended; the adapter is the Server
\* field the code calls through: s.mistralClient for the cloud provider's chat
\* completion, s.llmClient otherwise
LlmCall(call, model, outcome) ==
  [call |-> call, model |-> model, outcome |-> outcome,
   adapter |-> IF provider = "mistral" /\ call = "ChatCompletion"
               THEN boot.mistralClient ELSE boot.llmClient]

\* the client value: whether NewClient returned it, the error NewClient or
\* Close returned, the calls made to authenticate, the logout requests sent,
\* the calls made to Close, and the session authenticate stored
LoginOK(sess) == [transport |-> FALSE, status |-> 200, body |-> "json", session |-> sess]
ClientOpen(sess) ==
  [state |-> "open", err |-> "", authCalls |-> 1, logouts |-> 0, closes |-> 0,
   issued |-> sess, cfg |-> "cfg", login |-> LoginOK(sess), logout |-> "none"]
NoAdCall == [fn |-> "none", in |-> << >>, out |-> << >>]

NoTool == [name |-> "", required |-> {}]
CatIdle == [done |-> FALSE, found |-> FALSE, tool |-> NoTool]
NoCall == [op |-> "none", params |-> {}, sent |-> 0, err |-> "", fetched |-> -1,
           prev |-> "none"]

ServerInit ==
  /\ provider \in {"ollama", "mistral"}
  /\ session = TheSession
  /\ store = EmptyStore
  /\ now = 0
  /\ pc = "idle"
  /\ handler = "none"
  /\ reqModel = ""
  /\ llmResponse = NoResponse
  /\ origText = Prose("")
  /\ idx = 1
  /\ httpResp = NoHttp
  /\ llmLog = << >>
  /\ execLog = << >>

CatQuiet ==
  /\ catName = ""
  /\ catIdx = 1
  /\ catRes = CatIdle

\* the Gateway as a successful NewClient left it, nothing on the wire since,
\* and no adapter function under direct call
ExtQuiet ==
  /\ client = ClientOpen(TheSession)
  /\ wire = NoWire
  /\ adCall = NoAdCall
  /\ boot = ServerOf(ValidConfig(provider))
  /\ procs = NoProcs

Init ==
  /\ ServerInit
  /\ gwCall = NoCall
  /\ CatQuiet
  /\ ExtQuiet

(***************************************************************************)
(* Request handlers                                                         *)
(***************************************************************************)
\* a new request starts from a clean slate
StartRequest(h, model) ==
  /\ handler' = h
  /\ reqModel' = IF model = "" THEN DefaultModel ELSE model
  /\ llmResponse' = NoResponse
  /\ origText' = Prose("")
  /\ idx' = 1
  /\ llmLog' = << >>
  /\ execLog' = << >>

\* handleChat up to the model validation call
HandleChat ==
  /\ pc = "idle"
  /\ \E message \in {"", "list all virtual services"}, model \in RequestModels :
        /\ StartRequest("json", model)
        /\ IF message = ""
           THEN /\ httpResp' = HttpError(400, "binding")
                /\ pc' = "idle"
           ELSE /\ httpResp' = NoHttp
                /\ pc' = "validate"
  /\ UNCHANGED << provider, session, store, now, gwCall, catVars, extVars, auxVars >>

\* handleChat: ValidateModel and the two ways it rejects the request
HandleChatValidate ==
  /\ pc = "validate"
  /\ \E listed \in {"error", "ok"} :
        /\ llmLog' = Append(llmLog, LlmCall("ListModels", reqModel, listed))
        /\ IF listed = "error"
           THEN /\ httpResp' = HttpError(500, "Failed to validate model")
                /\ pc' = "idle"
           ELSE IF ~ValidateModel(BackendModels, reqModel)
           THEN /\ httpResp' = HttpError(400, "Model is not available")
                /\ pc' = "idle"
           ELSE /\ httpResp' = NoHttp
                /\ pc' = "process"
  /\ UNCHANGED << provider, session, store, now, handler, reqModel, llmResponse,
                  origText, idx, execLog, gwCall, catVars, extVars, auxVars >>

\* handleHTMXChat up to processChatMessage
HandleHTMXChat ==
  /\ pc = "idle"
  /\ \E message \in {"", "list all virtual services"}, model \in RequestModels :
        /\ StartRequest("htmx", model)
        /\ IF message = ""
           THEN /\ httpResp' = HttpError(400, "Message cannot be empty")
                /\ pc' = "idle"
           ELSE /\ httpResp' = NoHttp
                /\ pc' = "process"
  /\ UNCHANGED << provider, session, store, now, gwCall, catVars, extVars, auxVars >>

(***************************************************************************)
(* processChatMessage                                                       *)
(***************************************************************************)
\* the ways the model call fails
ModelFailures == {"timeout", "transport", "status 500", "decode"}

\* what the model backend may answer to a chat completion for the model
ModelReplies(model) ==
  IF model \notin BackendModels THEN {}
  ELSE IF provider = "ollama"
  THEN {[content |-> c, calls |-> << >>] : c \in OllamaContents}
  ELSE {[content |-> c, calls |-> calls] :
          c \in MistralTexts, calls \in MistralToolCallLists}

\* ProcessNaturalLanguageQuery of the configured adapter on a decoded reply
Normalize(reply, model) ==
  IF provider = "ollama" THEN processLLMResponse(reply.content, model)
  ELSE mistralResponse(reply.content, reply.calls, model)

\* the handler's answer when processChatMessage returns an error
ProcessError(h, failure) ==
  HttpError(500, IF h = "json" THEN "Failed to process message"
                 ELSE "Failed to process message: " \o failure)

\* the model call's error dropped: the handler answers 200 with what it has
ModelCallFailsSilently ==
  /\ pc = "process"
  /\ \E f \in ModelFailures \cup (IF provider = "mistral" THEN {"no choices"} ELSE {}) :
        llmLog' = Append(llmLog, LlmCall("ChatCompletion", reqModel, f))
  /\ httpResp' = HttpOK(llmResponse)
  /\ pc' = "idle"
  /\ UNCHANGED << provider, session, store, now, handler, reqModel, llmResponse,
                  origText, idx, execLog, gwCall, catVars, extVars, auxVars >>

\* the model call failed: the error reaches the handler, which answers 500
ModelCallFails ==
  /\ pc = "process"
  /\ \E f \in ModelFailures \cup (IF provider = "mistral" THEN {"no choices"} ELSE {}) :
        /\ llmLog' = Append(llmLog, LlmCall("ChatCompletion", reqModel, f))
        /\ httpResp' = ProcessError(handler, f)
  /\ pc' = "idle"
  /\ UNCHANGED << provider, session, store, now, handler, reqModel, llmResponse,
                  origText, idx, execLog, gwCall, catVars, extVars, auxVars >>

\* the model call succeeded: the response is normalised and dispatch begins
ModelCallReturns ==
  /\ pc = "process"
  /\ llmLog' = Append(llmLog, LlmCall("ChatCompletion", reqModel, "ok"))
  /\ \E reply \in ModelReplies(reqModel) :
        /\ llmResponse' = Normalize(reply, reqModel)
        /\ origText' = reply.content
  /\ idx' = 1
  /\ pc' = "dispatch"
  /\ UNCHANGED << provider, session, store, now, handler, reqModel, httpResp,
                  execLog, gwCall, catVars, extVars, auxVars >>

\* the result put in front of what the message already holds
AppendResultInFront(message, res) == [message EXCEPT !.blocks = << res >> \o @]

\* fmt.Sprintf("\n\nAPI Result:...", result) appended to the message
AppendResult(message, res) == [message EXCEPT !.blocks = Append(@, res)]

\* one iteration of the loop over llmResponse.ToolCalls
FoldResult(resp, i, r) ==
  [resp EXCEPT
     !.ToolCalls[i].args = r.args,
     !.Message = IF r.err = "" /\ ~r.res.nil THEN AppendResult(@, r.res) ELSE @]

LogEntry(i, call, r) ==
  [index |-> i, name |-> call.name, args |-> call.args, op |-> r.op,
   params |-> r.params, err |-> r.err, sent |-> r.sent, res |-> r.res,
   text |-> llmResponse.Message.text, before |-> Len(llmResponse.Message.blocks),
   after |-> Len(FoldResult(llmResponse, i, r).Message.blocks)]

\* a failed tool call is tried once more before the loop goes on
NextIndexRetries(i, log, n) ==
  IF log[Len(log)].err # "" /\ (Len(log) = 1 \/ log[Len(log) - 1].index # i)
  THEN i ELSE i + 1

\* the loop left at the first failed tool call
NextIndexBreaks(i, log, n) == IF log[Len(log)].err # "" THEN n + 1 ELSE i + 1

\* the loop goes on to the next tool call whether or not this one failed
NextIndex(i, log, n) == i + 1

DispatchToolCall ==
  /\ pc = "dispatch"
  /\ idx <= Len(llmResponse.ToolCalls)
  /\ \E reply \in Replies :
        LET call == llmResponse.ToolCalls[idx]
            r == executeToolCall(call, session, store, now, reply)
        IN /\ llmResponse' = FoldResult(llmResponse, idx, r)
           /\ store' = r.store
           /\ execLog' = Append(execLog, LogEntry(idx, call, r))
  /\ idx' = NextIndex(idx, execLog', Len(llmResponse.ToolCalls))
  /\ UNCHANGED << provider, session, now, pc, handler, reqModel, origText,
                  httpResp, llmLog, gwCall, catVars, extVars, auxVars >>

\* processChatMessage returns the response and the handler answers 200
ReturnResponse ==
  /\ pc = "dispatch"
  /\ idx > Len(llmResponse.ToolCalls)
  /\ httpResp' = HttpOK(llmResponse)
  /\ pc' = "idle"
  /\ UNCHANGED << provider, session, store, now, handler, reqModel, llmResponse,
                  origText, idx, llmLog, execLog, gwCall, catVars, extVars, auxVars >>

Next ==
  \/ HandleChat
  \/ HandleChatValidate
  \/ HandleHTMXChat
  \/ ModelCallFails
  \/ ModelCallReturns
  \/ DispatchToolCall
  \/ ReturnResponse

Spec == Init /\ [][Next]_vars

(***************************************************************************)
(* The Gateway under direct calls, with time passing                        *)
(***************************************************************************)
ListOps ==
  {"ListVirtualServices", "ListPools", "ListHealthMonitors", "ListServiceEngines"}
\* query parameters the direct callers pass; the filtered variant is drawn for
\* one cached and one uncached operation
GwParams(op) ==
  IF op \in {"ListVirtualServices", "ListHealthMonitors"}
  THEN { {}, {<<"fields", "f">>} }
  ELSE { {} }

ListOp(op, sess, st, t, params, reply) ==
  CASE op = "ListVirtualServices" -> ListVirtualServices(sess, st, t, params, reply)
    [] op = "ListPools" -> ListPools(sess, st, t, params, reply)
    [] op = "ListHealthMonitors" -> ListHealthMonitors(sess, st, t, params, reply)
    [] op = "ListServiceEngines" -> ListServiceEngines(sess, st, t, params, reply)

\* how this call stands to the call before it: "none" unless that call was the
\* same operation with the same parameters and got a successful response from
\* the backend; else where this call falls in that response's TTL window
Since(op, params) ==
  IF gwCall.op # op \/ gwCall.params # params \/ gwCall.fetched < 0
  THEN "none"
  ELSE IF now < gwCall.fetched + CacheTTL THEN "within"
  ELSE IF now = gwCall.fetched + CacheTTL THEN "at expiry"
  ELSE "expired"

GwList ==
  \E op \in ListOps, reply \in Replies :
   \E params \in GwParams(op) :
     LET r == ListOp(op, session, store, now, params, reply)
     IN /\ store' = r.store
        /\ gwCall' = [op |-> op, params |-> params, sent |-> r.sent, err |-> r.err,
                      fetched |-> IF r.sent = 1 /\ r.err = "" THEN now ELSE -1,
                      prev |-> Since(op, params)]
        /\ UNCHANGED << provider, session, now, pc, handler, reqModel, llmResponse,
                        origText, idx, httpResp, llmLog, execLog, catVars, extVars, auxVars >>

\* time passes
Tick ==
  /\ now + TickStep <= MaxTicks * TickStep
  /\ now' = now + TickStep
  /\ UNCHANGED << provider, session, store, pc, handler, reqModel, llmResponse,
                  origText, idx, httpResp, llmLog, execLog, gwCall, catVars, extVars, auxVars >>

GwInit ==
  /\ ServerInit
  /\ provider = "ollama"
  /\ gwCall = NoCall
  /\ CatQuiet
  /\ ExtQuiet

GwNext ==
  \/ GwList
  \/ Tick

SpecGateway == GwInit /\ [][GwNext]_vars

(***************************************************************************)
(* The catalog lookup, one loop iteration at a time                         *)
(***************************************************************************)
\* if tool.Function.Name == name
ToolMatches(tool, name) == tool.name = name

GetToolByNameStep ==
  /\ ~catRes.done
  /\ IF catIdx > Len(GetAviToolDefinitions)
     THEN /\ catRes' = [done |-> TRUE, found |-> FALSE, tool |-> NoTool]
          /\ catIdx' = catIdx
     ELSE IF ToolMatches(GetAviToolDefinitions[catIdx], catName)
     THEN /\ catRes' = [done |-> TRUE, found |-> TRUE,
                        tool |-> GetAviToolDefinitions[catIdx]]
          /\ catIdx' = catIdx
     ELSE /\ catRes' = catRes
          /\ catIdx' = catIdx + 1
  /\ UNCHANGED << serverVars, gwCall, catName, extVars, auxVars >>

CatInit ==
  /\ ServerInit
  /\ provider = "ollama"
  /\ gwCall = NoCall
  /\ catName \in CatalogNames \cup UnknownTools \cup {""}
  /\ catIdx = 1
  /\ catRes = CatIdle
  /\ ExtQuiet

CatNext == GetToolByNameStep

SpecCatalog == CatInit /\ [][CatNext]_vars

(***************************************************************************)
(* The Gateway's life: NewClient, its operations, Close                     *)
(***************************************************************************)
\* how many times the owner calls Close
MaxCloses == 2

\* the cfg argument of NewClient
Configs == {"nil", "cfg"}

\* a session decoded from a login response that carries no csrftoken member
SessionNoCsrf == [valid |-> TRUE, SessionID |-> "sid", CSRFToken |-> ""]

\* what the controller (or the transport) answers to the login request
LoginReplies ==
  { [transport |-> TRUE, status |-> 0, body |-> "empty", session |-> NoSession],
    [transport |-> FALSE, status |-> 401, body |-> "json", session |-> NoSession],
    [transport |-> FALSE, status |-> 200, body |-> "garbage", session |-> NoSession],
    LoginOK(TheSession),
    LoginOK(SessionNoCsrf) }

\* the login request: content type and version headers only
LoginRequest ==
  [kind |-> "login", cookie |-> Absent, csrf |-> Absent,
   version |-> Set(AviVersion), tenant |-> Absent, ctx |-> "background"]

\* the logout request: version header and session cookie
LogoutRequest(sess) ==
  [kind |-> "logout", cookie |-> Set(sess.SessionID), csrf |-> Absent,
   version |-> Set(AviVersion), tenant |-> Absent, ctx |-> "background"]

\* Client.authenticate: the error it returns and c.session after it
authenticate(reply) ==
  IF reply.transport THEN [err |-> "login request failed", session |-> NoSession]
  ELSE IF reply.status # 200
       THEN [err |-> "login failed with status", session |-> NoSession]
  ELSE IF reply.body # "json"
       THEN [err |-> "failed to parse session response", session |-> NoSession]
  ELSE [err |-> "", session |-> reply.session]

\* no login request was answered
NoLogin == [transport |-> FALSE, status |-> 0, body |-> "empty", session |-> NoSession]

NoClient ==
  [state |-> "none", err |-> "", authCalls |-> 0, logouts |-> 0, closes |-> 0,
   issued |-> NoSession, cfg |-> "none", login |-> NoLogin, logout |-> "none"]

\* NewClient returned an error and no client
NoClientBuilt(cfg, reply, err, calls) ==
  [NoClient EXCEPT !.state = "failed", !.err = err, !.authCalls = calls,
                   !.cfg = cfg, !.login = reply]

\* NewClient hands out the client although authenticate failed
NewClientIgnoresAuth(cfg, reply) ==
  IF cfg = "nil"
  THEN [client |-> NoClientBuilt(cfg, NoLogin, "avi config cannot be nil", 0),
        session |-> NoSession, wire |-> NoWire]
  ELSE [client |-> [ClientOpen(authenticate(reply).session) EXCEPT !.login = reply],
        session |-> authenticate(reply).session, wire |-> LoginRequest]

\* avi.NewClient
NewClient(cfg, reply) ==
  IF cfg = "nil"
  THEN [client |-> NoClientBuilt(cfg, NoLogin, "avi config cannot be nil", 0),
        session |-> NoSession, wire |-> NoWire]
  ELSE LET a == authenticate(reply) IN
       IF a.err # ""
       THEN [client |-> NoClientBuilt(cfg, reply, "authentication failed: " \o a.err, 1),
             session |-> NoSession, wire |-> LoginRequest]
       ELSE [client |-> [ClientOpen(a.session) EXCEPT !.login = reply],
             session |-> a.session, wire |-> LoginRequest]

\* how the logout attempt of Close ends: the request cannot be built, the
\* transport fails, or the controller answers
LogoutOutcomes == {"bad url", "transport", "200", "500"}

\* Close gives up on a failed logout: the error is returned, the session kept
CloseSurfacesFailure(sess, outcome) ==
  IF ~sess.valid THEN [session |-> sess, sent |-> 0, err |-> "", wire |-> NoWire]
  ELSE IF outcome = "200"
       THEN [session |-> NoSession, sent |-> 1, err |-> "", wire |-> LogoutRequest(sess)]
  ELSE [session |-> sess, sent |-> IF outcome = "bad url" THEN 0 ELSE 1,
        err |-> "logout failed",
        wire |-> IF outcome = "bad url" THEN NoWire ELSE LogoutRequest(sess)]

\* Client.Close
Close(sess, outcome) ==
  IF ~sess.valid THEN [session |-> sess, sent |-> 0, err |-> "", wire |-> NoWire]
  ELSE IF outcome = "bad url"
       THEN [session |-> NoSession, sent |-> 0, err |-> "", wire |-> NoWire]
  ELSE [session |-> NoSession, sent |-> 1, err |-> "", wire |-> LogoutRequest(sess)]

CachedOps == {"ListVirtualServices", "ListPools"}
MutatingOps ==
  {"CreateVirtualService", "UpdateVirtualService", "DeleteVirtualService",
   "CreatePool", "ScaleOutPool", "ScaleInPool"}
ClientOps == CachedOps \cup {"ListHealthMonitors"} \cup MutatingOps

ClientOp(op, sess, st, t, reply) ==
  CASE op \in ListOps -> ListOp(op, sess, st, t, {}, reply)
    [] op = "CreateVirtualService" -> CreateVirtualService(sess, st, reply)
    [] op = "UpdateVirtualService" -> UpdateVirtualService(sess, st, reply, "u1")
    [] op = "DeleteVirtualService" -> DeleteVirtualService(sess, st, reply)
    [] op = "CreatePool" -> CreatePool(sess, st, reply)
    [] op = "ScaleOutPool" -> ScaleOutPool(sess, st, reply)
    [] op = "ScaleInPool" -> ScaleInPool(sess, st, reply)

NewClientStep ==
  /\ client.state = "none"
  /\ \E cfg \in Configs, reply \in LoginReplies :
        LET r == NewClient(cfg, reply)
        IN /\ client' = r.client
           /\ session' = r.session
           /\ wire' = r.wire
  /\ UNCHANGED << provider, store, now, pc, handler, reqModel, llmResponse,
                  origText, idx, httpResp, llmLog, execLog, gwCall, catVars,
                  adCall, auxVars >>

\* the owner of the client calls one of its operations
ClientCall ==
  /\ client.state \in {"open", "closed"}
  /\ \E op \in ClientOps, reply \in Replies :
        LET r == ClientOp(op, session, store, now, reply)
        IN /\ store' = r.store
           /\ gwCall' = [op |-> op, params |-> {}, sent |-> r.sent, err |-> r.err,
                         fetched |-> IF r.sent = 1 /\ r.err = "" THEN now ELSE -1,
                         prev |-> Since(op, {})]
           /\ wire' = IF r.sent = 1 THEN makeRequest(session, reply).req ELSE NoWire
  /\ UNCHANGED << provider, session, now, pc, handler, reqModel, llmResponse,
                  origText, idx, httpResp, llmLog, execLog, catVars, client,
                  adCall, auxVars >>

CloseStep ==
  /\ client.state \in {"open", "closed"}
  /\ client.closes < MaxCloses
  /\ \E outcome \in LogoutOutcomes :
        LET r == Close(session, outcome)
        IN /\ session' = r.session
           /\ wire' = r.wire
           /\ client' = [client EXCEPT
                           !.state = "closed",
                           !.err = r.err,
                           !.closes = @ + 1,
                           !.logouts = @ + r.sent,
                           !.logout = IF session.valid THEN outcome ELSE @]
           /\ gwCall' = [op |-> "Close", params |-> {}, sent |-> r.sent,
                         err |-> r.err, fetched |-> -1, prev |-> "none"]
  /\ UNCHANGED << provider, store, now, pc, handler, reqModel, llmResponse,
                  origText, idx, httpResp, llmLog, execLog, catVars, adCall, auxVars >>

\* before NewClient: no client, no session, an empty cache, no request served
ClientInit ==
  /\ provider = "ollama"
  /\ session = NoSession
  /\ client = NoClient
  /\ wire = NoWire
  /\ store = EmptyStore
  /\ now = 0
  /\ pc = "idle"
  /\ handler = "none"
  /\ reqModel = ""
  /\ llmResponse = NoResponse
  /\ origText = Prose("")
  /\ idx = 1
  /\ httpResp = NoHttp
  /\ llmLog = << >>
  /\ execLog = << >>
  /\ gwCall = NoCall
  /\ CatQuiet
  /\ adCall = NoAdCall
  /\ boot = ServerOf(ValidConfig(provider))
  /\ procs = NoProcs

ClientNext ==
  \/ NewClientStep
  \/ ClientCall
  \/ CloseStep

SpecClient == ClientInit /\ [][ClientNext]_vars

(***************************************************************************)
(* The adapters' functions under direct call                                *)
(***************************************************************************)
\* longest conversation history passed to an adapter
MaxHistory == 2

\* earlier turns of a conversation
HistoryMessages ==
  { [Role |-> "user", Content |-> "list pools"],
    [Role |-> "assistant", Content |-> "there are two pools"],
    [Role |-> "system", Content |-> "be brief"] }

\* a []ChatMessage: nil, or a slice of earlier turns
NilHistory == [nil |-> TRUE, items |-> << >>]
Histories ==
  {NilHistory} \cup {[nil |-> FALSE, items |-> q] : q \in SeqsOver(HistoryMessages, MaxHistory)}

\* the new user message
Queries == {"show pool p1", ""}

\* buildSystemPrompt of each adapter
buildSystemPrompt(p) ==
  IF p = "ollama" THEN "assistant for Avi Load Balancer"
  ELSE "assistant for Avi Load Balancer using Mistral AI"

\* processChatMessage: the history as handed to the configured adapter
convertHistory(p, history) ==
  IF p = "ollama" THEN history
  ELSE [nil |-> FALSE,
        items |-> [i \in 1..Len(history.items) |->
                     [Role |-> history.items[i].Role,
                      Content |-> history.items[i].Content]]]

\* the new user turn is placed before the history
buildMessagesUserFirst(p, query, history) ==
  LET messages ==
        << [Role |-> "system", Content |-> buildSystemPrompt(p)] >>
        \o << [Role |-> "user", Content |-> query] >>
        \o history.items
  IN [err |-> "", messages |-> messages]

\* processNaturalLanguageQueryInternal of either adapter, up to the chat
\* request: the messages it submits
buildMessages(p, query, history) ==
  LET h == IF p = "mistral" /\ history.nil THEN << >> ELSE history.items
      messages ==
        << [Role |-> "system", Content |-> buildSystemPrompt(p)] >>
        \o h
        \o << [Role |-> "user", Content |-> query] >>
  IN IF p = "mistral" /\ Len(messages) < 2
     THEN [err |-> "invalid message construction", messages |-> << >>]
     ELSE [err |-> "", messages |-> messages]

\* config: default model, temperature (in tenths) and max tokens of a provider
CfgDefaultModel(p) == IF p = "ollama" THEN "llama3.2" ELSE "mistral-tiny"
CfgTemperature == 7
CfgMaxTokens == 2048

\* chat requests as callers build them
ChatRequests ==
  [Model : {"", "llama3.2", "mistral-small"},
   Temperature : {0, CfgTemperature, 2},
   MaxTokens : {0, CfgMaxTokens, 64}]

\* the temperature is overwritten whatever the caller supplied
applyDefaultsAlways(p, req) ==
  [Model |-> IF req.Model = "" THEN CfgDefaultModel(p) ELSE req.Model,
   Temperature |-> CfgTemperature,
   MaxTokens |-> IF req.MaxTokens = 0 THEN CfgMaxTokens ELSE req.MaxTokens]

\* ChatCompletion: the defaults applied to the request
applyDefaults(p, req) ==
  [Model |-> IF req.Model = "" THEN CfgDefaultModel(p) ELSE req.Model,
   Temperature |-> IF req.Temperature = 0 THEN CfgTemperature ELSE req.Temperature,
   MaxTokens |-> IF req.MaxTokens = 0 THEN CfgMaxTokens ELSE req.MaxTokens]

\* what the model backend (or the transport) answers to an adapter's request
LlmReplies ==
  { [transport |-> TRUE, status |-> 0, body |-> "empty"],
    [transport |-> FALSE, status |-> 200, body |-> "json"],
    [transport |-> FALSE, status |-> 200, body |-> "garbage"],
    [transport |-> FALSE, status |-> 201, body |-> "json"],
    [transport |-> FALSE, status |-> 204, body |-> "empty"],
    [transport |-> FALSE, status |-> 401, body |-> "json"],
    [transport |-> FALSE, status |-> 404, body |-> "garbage"],
    [transport |-> FALSE, status |-> 500, body |-> "json"] }

\* the error of a non-success status gives neither the code nor the body
handleResponseNoStatus(reply) ==
  IF reply.transport
  THEN [err |-> "request failed", status |-> Absent, body |-> Absent, decoded |-> FALSE]
  ELSE IF reply.status # 200
  THEN [err |-> "request failed with status", status |-> Absent, body |-> Absent,
        decoded |-> FALSE]
  ELSE IF reply.body # "json"
  THEN [err |-> "failed to decode response", status |-> Absent, body |-> Absent,
        decoded |-> FALSE]
  ELSE [err |-> "", status |-> Absent, body |-> Absent, decoded |-> TRUE]

\* ChatCompletion and ListModels of either adapter, from the answer on: the
\* error returned with the status code and body it carries, or the decoded
\* response
handleResponse(reply) ==
  IF reply.transport
  THEN [err |-> "request failed", status |-> Absent, body |-> Absent, decoded |-> FALSE]
  ELSE IF reply.status # 200
  THEN [err |-> "request failed with status", status |-> Set(reply.status),
        body |-> Set(reply.body), decoded |-> FALSE]
  ELSE IF reply.body # "json"
  THEN [err |-> "failed to decode response", status |-> Absent, body |-> Absent,
        decoded |-> FALSE]
  ELSE [err |-> "", status |-> Absent, body |-> Absent, decoded |-> TRUE]

\* an adapter function applied to an input, and what it returned
AdCall(fn, in, out) == [fn |-> fn, in |-> in, out |-> out]

BuildMessagesStep ==
  /\ \E query \in Queries, history \in Histories :
        adCall' = AdCall("buildMessages", [query |-> query, history |-> history],
                         buildMessages(provider, query,
                                       convertHistory(provider, history)))
  /\ UNCHANGED << serverVars, gwCall, catVars, client, wire, auxVars >>

ProcessLLMResponseStep ==
  /\ provider = "ollama"
  /\ \E content \in OllamaContents :
        adCall' = AdCall("processLLMResponse", [content |-> content],
                         processLLMResponse(content, CfgDefaultModel(provider)))
  /\ UNCHANGED << serverVars, gwCall, catVars, client, wire, auxVars >>

MistralResponseStep ==
  /\ provider = "mistral"
  /\ \E content \in MistralTexts, calls \in MistralToolCallLists \cup {<< >>} :
        adCall' = AdCall("mistralResponse", [content |-> content, calls |-> calls],
                         mistralResponse(content, calls, CfgDefaultModel(provider)))
  /\ UNCHANGED << serverVars, gwCall, catVars, client, wire, auxVars >>

ChatCompletionStep ==
  /\ \E req \in ChatRequests, reply \in LlmReplies :
        adCall' = AdCall("ChatCompletion", [req |-> req, reply |-> reply],
                         [req |-> applyDefaults(provider, req),
                          res |-> handleResponse(reply)])
  /\ UNCHANGED << serverVars, gwCall, catVars, client, wire, auxVars >>

ListModelsStep ==
  /\ \E reply \in LlmReplies :
        adCall' = AdCall("ListModels", [reply |-> reply],
                         [res |-> handleResponse(reply)])
  /\ UNCHANGED << serverVars, gwCall, catVars, client, wire, auxVars >>

\* the query parameter maps handed to getCacheKey; a value is any string the
\* model proposed, "&" and "=" included
KeyParamMaps ==
  { {}, {<<"fields", "f">>}, {<<"name", "n">>},
    {<<"fields", "f">>, <<"name", "n">>}, {<<"fields", "f&name=n">>} }

KeyInputs == [method : {"GET", "POST"}, endpoint : {"/virtualservice"},
              params : KeyParamMaps]

\* getCacheKey applied to two requests
GetCacheKeyStep ==
  /\ \E a \in KeyInputs, b \in KeyInputs :
        adCall' = AdCall("getCacheKey", [a |-> a, b |-> b],
                         [ka |-> getCacheKey(a.method, a.endpoint, a.params),
                          kb |-> getCacheKey(b.method, b.endpoint, b.params)])
  /\ UNCHANGED << serverVars, gwCall, catVars, client, wire, auxVars >>

AdapterNext ==
  \/ GetCacheKeyStep
  \/ BuildMessagesStep
  \/ ProcessLLMResponseStep
  \/ MistralResponseStep
  \/ ChatCompletionStep
  \/ ListModelsStep

SpecAdapter == Init /\ [][AdapterNext]_vars

(***************************************************************************)
(* Start-up: config.Load, web.NewServer, then the request handlers          *)
(***************************************************************************)
\* the providers a config file may name, the supported two and another one
Providers == {"ollama", "mistral", "openai"}

\* the configs a deployment may supply: the provider, the cloud provider's API
\* key and the controller's host (the other required fields are present)
BootConfigs == [Provider : Providers, APIKey : {"", "key"}, AviHost : {"", "avi"}]

\* validateConfig without the API key check
validateConfigNoKeyCheck(cfg) ==
  IF cfg.AviHost = "" THEN "avi.host is required"
  ELSE IF cfg.Provider = "ollama" THEN ""
  ELSE IF cfg.Provider = "mistral" THEN ""
  ELSE "unsupported provider"

\* validateConfig: the error it returns, "" for none
validateConfig(cfg) ==
  IF cfg.AviHost = "" THEN "avi.host is required"
  ELSE IF cfg.Provider = "ollama" THEN ""
  ELSE IF cfg.Provider = "mistral"
       THEN IF cfg.APIKey = ""
            THEN "mistral.api_key is required when using Mistral provider"
            ELSE ""
  ELSE "unsupported provider"

\* nothing loaded, nothing constructed
NotBooted ==
  [state |-> "load", cfg |-> [Provider |-> "", APIKey |-> "", AviHost |-> ""],
   err |-> "", llmClient |-> "nil", mistralClient |-> "nil"]

\* NewServer returned an error and no Server
NoServer(cfg, err) ==
  [state |-> "failed", cfg |-> cfg, err |-> err,
   llmClient |-> "nil", mistralClient |-> "nil"]

\* the login replies a start-up sees: the transport fails, the controller
\* refuses, or it issues the session
ServerLogins ==
  { r \in LoginReplies : r.status # 200 \/ r = LoginOK(TheSession) }

\* NewServer builds both fields whatever the provider
NewServerBothAdapters(cfg, reply) ==
  LET c == NewClient("cfg", reply) IN
  IF c.client.state = "failed"
  THEN [boot |-> NoServer(cfg, "failed to initialize Avi client"), avi |-> c]
  ELSE IF cfg.Provider \in {"ollama", "mistral"}
       THEN [boot |-> [ServerOf(cfg) EXCEPT !.llmClient = "llm.Client",
                                            !.mistralClient = "mistral.Client"],
             avi |-> c]
  ELSE [boot |-> NoServer(cfg, "unsupported LLM provider"), avi |-> c]

\* web.NewServer: the Gateway first, then the adapter of the provider
NewServer(cfg, reply) ==
  LET c == NewClient("cfg", reply) IN
  IF c.client.state = "failed"
  THEN [boot |-> NoServer(cfg, "failed to initialize Avi client"), avi |-> c]
  ELSE IF cfg.Provider = "ollama"
       THEN [boot |-> [ServerOf(cfg) EXCEPT !.llmClient = "llm.Client",
                                            !.mistralClient = "nil"],
             avi |-> c]
  ELSE IF cfg.Provider = "mistral"
       THEN IF cfg.APIKey = ""
            THEN [boot |-> NoServer(cfg, "failed to initialize Mistral AI client"),
                  avi |-> c]
            ELSE [boot |-> [ServerOf(cfg) EXCEPT !.llmClient = "mistral.Client",
                                                 !.mistralClient = "mistral.Client"],
                  avi |-> c]
  ELSE [boot |-> NoServer(cfg, "unsupported LLM provider"), avi |-> c]

\* config.Load: the config is validated; a rejected config ends the start-up
LoadStep ==
  /\ pc = "load"
  /\ \E cfg \in BootConfigs :
       LET err == validateConfig(cfg) IN
       /\ boot' = IF err = ""
                  THEN [NotBooted EXCEPT !.state = "loaded", !.cfg = cfg]
                  ELSE [NoServer(cfg, "invalid configuration: " \o err)
                          EXCEPT !.state = "rejected"]
       /\ pc' = IF err = "" THEN "construct" ELSE "failed"
  /\ UNCHANGED << provider, session, store, now, handler, reqModel, llmResponse,
                  origText, idx, httpResp, llmLog, execLog, gwCall, catVars,
                  extVars, procs >>

\* NewServer, on the loaded config or, as the tests do, on a config that was
\* never validated; a controller without a host cannot be reached
NewServerStep ==
  /\ pc \in {"load", "construct"}
  /\ \E cfg \in BootConfigs, reply \in ServerLogins :
       LET r == NewServer(cfg, reply) IN
       /\ pc = "construct" => cfg = boot.cfg
       /\ cfg.AviHost = "" => reply.transport
       /\ boot' = r.boot
       /\ client' = r.avi.client
       /\ session' = r.avi.session
       /\ wire' = r.avi.wire
       /\ provider' = IF r.boot.state = "serving" THEN cfg.Provider ELSE provider
       /\ pc' = IF r.boot.state = "serving" THEN "idle" ELSE "failed"
  /\ UNCHANGED << store, now, handler, reqModel, llmResponse, origText, idx,
                  httpResp, llmLog, execLog, gwCall, catVars, adCall, procs >>

ServerBootInit ==
  /\ provider = "none"
  /\ session = NoSession
  /\ store = EmptyStore
  /\ now = 0
  /\ pc = "load"
  /\ handler = "none"
  /\ reqModel = ""
  /\ llmResponse = NoResponse
  /\ origText = Prose("")
  /\ idx = 1
  /\ httpResp = NoHttp
  /\ llmLog = << >>
  /\ execLog = << >>
  /\ gwCall = NoCall
  /\ CatQuiet
  /\ client = NoClient
  /\ wire = NoWire
  /\ adCall = NoAdCall
  /\ boot = NotBooted
  /\ procs = NoProcs

ServerNext ==
  \/ LoadStep
  \/ NewServerStep
  \/ HandleChat
  \/ HandleChatValidate
  \/ HandleHTMXChat
  \/ ModelCallFails
  \/ ModelCallReturns
  \/ DispatchToolCall
  \/ ReturnResponse

SpecServer == ServerBootInit /\ [][ServerNext]_vars

(***************************************************************************)
(* The Gateway shared by goroutines: a cached list call and Close, one      *)
(* statement at a time                                                      *)
(***************************************************************************)
\* the request goroutines of the web server and the one that shuts it down
Goroutines == {"g1", "g2"}

\* the key every goroutine's call maps to: ListVirtualServices(ctx, nil)
RaceKey == getCacheKey("GET", "/virtualservice", {})

\* a goroutine outside the client, with what its last call left behind:
\* ok and expiresAt are the entry getFromCache read, victim the state of the
\* entry its delete removed, cookie the session id put on its request
IdleProc ==
  [pc |-> "idle", ok |-> FALSE, expiresAt |-> 0, victim |-> "none",
   cookie |-> Absent, err |-> "", res |-> "none"]

\* everything the goroutines' steps leave alone
raceFrame ==
  << provider, now, pc, handler, reqModel, llmResponse, origText, idx, httpResp,
     llmLog, execLog, gwCall, catVars, extVars, boot >>

\* getFromCache: entry, ok := c.cache.store[key] under the read lock
LookupRead(g) ==
  /\ procs[g].pc = "idle"
  /\ procs' = [procs EXCEPT ![g] =
       [IdleProc EXCEPT
          !.pc = IF RaceKey \in DOMAIN store THEN "expiry" ELSE "request",
          !.ok = RaceKey \in DOMAIN store,
          !.expiresAt = IF RaceKey \in DOMAIN store
                        THEN store[RaceKey].expiresAt ELSE 0]]
  /\ UNCHANGED << session, store, raceFrame >>

\* getFromCache: if time.Now().After(entry.expiresAt), on the copy read
\* before; an unexpired entry is returned
LookupExpiry(g) ==
  /\ procs[g].pc = "expiry"
  /\ procs' = [procs EXCEPT ![g] =
       IF now > procs[g].expiresAt
       THEN [@ EXCEPT !.pc = "delete"]
       ELSE [@ EXCEPT !.pc = "idle", !.res = "hit"]]
  /\ UNCHANGED << session, store, raceFrame >>

\* getFromCache: delete(c.cache.store, key) under the write lock, whatever
\* the key holds by now
LookupDelete(g) ==
  /\ procs[g].pc = "delete"
  /\ store' = [k \in DOMAIN store \ {RaceKey} |-> store[k]]
  /\ procs' = [procs EXCEPT ![g] =
       [@ EXCEPT !.pc = "request",
                 !.victim = IF RaceKey \notin DOMAIN store THEN "absent"
                            ELSE IF now > store[RaceKey].expiresAt THEN "expired"
                            ELSE "fresh"]]
  /\ UNCHANGED << session, raceFrame >>

\* makeRequest: if c.session == nil
RequestAuth(g) ==
  /\ procs[g].pc = "request"
  /\ procs' = [procs EXCEPT ![g] =
       IF session.valid
       THEN [@ EXCEPT !.pc = "csrf"]
       ELSE [@ EXCEPT !.pc = "idle", !.err = "not authenticated"]]
  /\ UNCHANGED << session, store, raceFrame >>

\* makeRequest: c.session.CSRFToken read for the header; a nil c.session
\* panics
RequestCsrf(g) ==
  /\ procs[g].pc = "csrf"
  /\ procs' = [procs EXCEPT ![g] =
       IF session.valid
       THEN [@ EXCEPT !.pc = "cookie"]
       ELSE [@ EXCEPT !.pc = "panic", !.err = "nil pointer dereference"]]
  /\ UNCHANGED << session, store, raceFrame >>

\* makeRequest: c.session.SessionID read for the cookie
RequestCookie(g) ==
  /\ procs[g].pc = "cookie"
  /\ procs' = [procs EXCEPT ![g] =
       IF session.valid
       THEN [@ EXCEPT !.pc = "send", !.cookie = Set(session.SessionID)]
       ELSE [@ EXCEPT !.pc = "panic", !.err = "nil pointer dereference"]]
  /\ UNCHANGED << session, store, raceFrame >>

\* c.httpClient.Do and the status check and decode of ListVirtualServices
RequestSend(g) ==
  /\ procs[g].pc = "send"
  /\ \E reply \in Replies :
       procs' = [procs EXCEPT ![g] =
         IF reply.transport \/ reply.status # 200 \/ reply.body # "json"
         THEN [@ EXCEPT !.pc = "idle", !.err = "request failed"]
         ELSE [@ EXCEPT !.pc = "write"]]
  /\ UNCHANGED << session, store, raceFrame >>

\* setCache under the write lock, then the page is returned
CacheWrite(g) ==
  /\ procs[g].pc = "write"
  /\ store' = setCache(store, RaceKey, Data("page", "/virtualservice"), now)
  /\ procs' = [procs EXCEPT ![g] = [@ EXCEPT !.pc = "idle", !.res = "page"]]
  /\ UNCHANGED << session, raceFrame >>

\* Close: if c.session != nil
CloseCheck(g) ==
  /\ procs[g].pc = "idle"
  /\ procs' = [procs EXCEPT ![g] =
       [IdleProc EXCEPT !.pc = IF session.valid THEN "logout" ELSE "idle",
                        !.res = "closed"]]
  /\ UNCHANGED << session, store, raceFrame >>

\* Close: the logout request, with c.session.SessionID as its cookie
CloseLogout(g) ==
  /\ procs[g].pc = "logout"
  /\ procs' = [procs EXCEPT ![g] =
       IF session.valid
       THEN [@ EXCEPT !.pc = "clear", !.cookie = Set(session.SessionID)]
       ELSE [@ EXCEPT !.pc = "panic", !.err = "nil pointer dereference"]]
  /\ UNCHANGED << session, store, raceFrame >>

\* Close: c.session = nil
CloseClear(g) ==
  /\ procs[g].pc = "clear"
  /\ session' = NoSession
  /\ procs' = [procs EXCEPT ![g] = [@ EXCEPT !.pc = "idle"]]
  /\ UNCHANGED << store, raceFrame >>

RaceInit ==
  /\ ServerInit
  /\ provider = "ollama"
  /\ gwCall = NoCall
  /\ CatQuiet
  /\ client = ClientOpen(TheSession)
  /\ wire = NoWire
  /\ adCall = NoAdCall
  /\ boot = ServerOf(ValidConfig(provider))
  /\ procs = [g \in Goroutines |-> IdleProc]

RaceNext ==
  \/ \E g \in Goroutines : LookupRead(g)
  \/ \E g \in Goroutines : LookupExpiry(g)
  \/ \E g \in Goroutines : LookupDelete(g)
  \/ \E g \in Goroutines : RequestAuth(g)
  \/ \E g \in Goroutines : RequestCsrf(g)
  \/ \E g \in Goroutines : RequestCookie(g)
  \/ \E g \in Goroutines : RequestSend(g)
  \/ \E g \in Goroutines : CacheWrite(g)
  \/ \E g \in Goroutines : CloseCheck(g)
  \/ \E g \in Goroutines : CloseLogout(g)
  \/ \E g \in Goroutines : CloseClear(g)
  \/ Tick

SpecRace == RaceInit /\ [][RaceNext]_vars

(***************************************************************************)
(* Properties                                                               *)
(***************************************************************************)
\* the model backend answered the chat completion of the request being served
ModelAnswered ==
  \E i \in DOMAIN llmLog :
     llmLog[i].call = "ChatCompletion" /\ llmLog[i].outcome = "ok"

\* the chat completion of the request being served failed
ModelFailed ==
  \E i \in DOMAIN llmLog :
     llmLog[i].call = "ChatCompletion" /\ llmLog[i].outcome # "ok"

\* the message as the model wrote it, nothing appended
Untouched == [text |-> origText, blocks |-> << >>]

\* the result blocks the handled invocations account for, in the order handled
ExpectedBlocks ==
  LET ok == SelectSeq(execLog, LAMBDA e : e.err = "" /\ ~e.res.nil)
  IN [k \in 1..Len(ok) |-> ok[k].res]

MissingArgErrors ==
  {"uuid parameter required", "resource_type parameter required",
   "method parameter required", "endpoint parameter required",
   "name parameter required"}

\* C1: when GetToolByName has returned, it has found the name exactly when the
\* name is one of GetToolNames, and the descriptor it found carries that name.
C1_CatalogRoundTrip ==
  catRes.done =>
    /\ (\E i \in DOMAIN GetToolNames : GetToolNames[i] = catName)
          => (catRes.found /\ catRes.tool.name = catName)
    /\ (~\E i \in DOMAIN GetToolNames : GetToolNames[i] = catName)
          => ~catRes.found

\* C1 witness: the lookup of the last catalog name has returned its descriptor
C1_Witness ==
  /\ catRes.done /\ catRes.found
  /\ catName = "execute_generic_operation"
  /\ catIdx = Len(GetAviToolDefinitions)

\* C2: a turn answered from a model response without tool calls returns the
\* model's text with nothing appended and has handled no invocation.
C2_NoInvocationsUnchanged ==
  (httpResp.status = 200 /\ Len(httpResp.body.ToolCalls) = 0) =>
    /\ httpResp.body.Message = Untouched
    /\ execLog = << >>

\* C2 witness: a JSON reply without a tool member was returned as it came
C2_Witness ==
  /\ httpResp.status = 200
  /\ Len(httpResp.body.ToolCalls) = 0
  /\ origText.valid /\ origText.object
  /\ httpResp.body.Message.text = origText

\* C3: an invocation naming no catalog tool is recorded once as failed with
\* "unknown tool", calls no Gateway operation, sends nothing, appends nothing,
\* and the turn still handles every invocation of the response.
C3_UnknownToolSkipped ==
  /\ \A i \in DOMAIN execLog :
        /\ execLog[i].index = i
        /\ execLog[i].name \notin CatalogNames =>
              /\ execLog[i].err = "unknown tool"
              /\ execLog[i].op = "none"
              /\ execLog[i].sent = 0
              /\ execLog[i].after = execLog[i].before
  /\ pc = "dispatch" => Len(execLog) = idx - 1
  /\ httpResp.status = 200 => Len(execLog) = Len(httpResp.body.ToolCalls)

\* C3 witness: an unknown tool was skipped and the invocation after it ran
C3_Witness ==
  /\ httpResp.status = 200
  /\ Len(execLog) = 2
  /\ execLog[1].name \notin CatalogNames
  /\ execLog[1].err = "unknown tool"
  /\ execLog[2].err = "" /\ execLog[2].sent = 1

\* C4: every handled invocation of a catalog tool that omits an argument the
\* tool's schema requires failed with a missing-argument error and called no
\* Gateway operation.
C4_MissingRequiredRefused ==
  \A i \in DOMAIN execLog :
     (/\ execLog[i].name \in CatalogNames
      /\ \E k \in RequiredOf(execLog[i].name) : ~HasKey(execLog[i].args, k))
     => (/\ execLog[i].err \in MissingArgErrors
         /\ execLog[i].op = "none"
         /\ execLog[i].sent = 0)

\* C5: a list operation repeated with the same parameters sends nothing while
\* the previous call's successful backend response is younger than the TTL, and
\* sends a request once that response is older than the TTL.
C5_ListCallsCached ==
  /\ gwCall.prev = "within" => gwCall.sent = 0
  /\ gwCall.prev = "expired" => gwCall.sent = 1

\* C6: invocations are handled one at a time in the order proposed, and the
\* result blocks of the message are those of the handled invocations that
\* returned a result, in that order.
C6_ProposalOrder ==
  /\ Len(execLog) <= Len(llmResponse.ToolCalls)
  /\ \A i \in DOMAIN execLog :
        /\ execLog[i].index = i
        /\ execLog[i].name = llmResponse.ToolCalls[i].name
  /\ pc = "dispatch" => Len(execLog) = idx - 1
  /\ llmResponse.Message.blocks = ExpectedBlocks

\* C6 witness: two different tools succeeded and their blocks follow the
\* proposal order
C6_Witness ==
  /\ httpResp.status = 200
  /\ Len(execLog) = 2
  /\ execLog[1].name = "list_virtual_services"
  /\ execLog[2].name = "list_health_monitors"
  /\ httpResp.body.Message.blocks =
       << Data("page", "/virtualservice"), Data("page", "/healthmonitor") >>

\* C7: once the model has answered, the turn ends with a 200 response after
\* handling every invocation, whatever failed; and when every invocation
\* failed the message returned is the model's text with nothing appended.
C7_FailureIsolation ==
  /\ (pc = "idle" /\ ModelAnswered) =>
        /\ httpResp.status = 200
        /\ Len(execLog) = Len(llmResponse.ToolCalls)
  /\ (httpResp.status = 200 /\ \A i \in DOMAIN execLog : execLog[i].err # "") =>
        httpResp.body.Message = Untouched

\* C7 witness: scale_out_pool failed on the controller's status 500 and the
\* turn still answered 200 with the model's text
C7_Witness ==
  /\ httpResp.status = 200
  /\ Len(execLog) = 1
  /\ execLog[1].name = "scale_out_pool"
  /\ execLog[1].sent = 1
  /\ execLog[1].err = "scale out failed with status"
  /\ httpResp.body.Message = Untouched

\* C8: every handled invocation that succeeded added exactly one result block,
\* and the message still starts with the model's text.
C8_SuccessAppendsBlock ==
  /\ \A i \in DOMAIN execLog :
        execLog[i].err = "" => execLog[i].after = execLog[i].before + 1
  /\ ModelAnswered => llmResponse.Message.text = origText

\* C9: when the chat completion failed, the request is over with a 500 answer
\* that carries no response, and no invocation was handled.
C9_ModelFailureAborts ==
  ModelFailed =>
    /\ pc = "idle"
    /\ httpResp.status = 500
    /\ httpResp.body = NoResponse
    /\ llmResponse = NoResponse
    /\ execLog = << >>

\* C9 witness: the model backend timed out and the caller got the 500 answer
C9_Witness ==
  /\ \E i \in DOMAIN llmLog :
        llmLog[i].call = "ChatCompletion" /\ llmLog[i].outcome = "timeout"
  /\ httpResp.status = 500
  /\ pc = "idle"

\* C10: every chat completion call is preceded, in the same request, by a
\* ListModels call that found the request's model, so none is made for a
\* model the backend does not list.
C10_ValidatedBeforeCompletion ==
  \A i \in DOMAIN llmLog :
     llmLog[i].call = "ChatCompletion" =>
       /\ llmLog[i].model \in BackendModels
       /\ \E j \in 1..(i - 1) :
             llmLog[j].call = "ListModels" /\ llmLog[j].outcome = "ok"

\* C11: a step in which a mutating Gateway operation (create, update, delete,
\* scale out, scale in) was called leaves the cache exactly as it was.
C11_MutationsLeaveCache ==
  [][gwCall'.op \in MutatingOps => store' = store]_vars

\* C11 witness: delete succeeded on the controller while the cache held a list
C11_Witness ==
  /\ gwCall.op = "DeleteVirtualService"
  /\ gwCall.sent = 1
  /\ gwCall.err = ""
  /\ store # EmptyStore

\* C12: a cached list operation repeated at exactly the instant the entry
\* expires is not served from the cache: it sends a request.
C12_HitStrictlyBeforeExpiry ==
  (gwCall.op \in CachedOps /\ gwCall.prev = "at expiry") => gwCall.sent = 1

\* the login reply makes authenticate fail
LoginFails(reply) == reply.transport \/ reply.status # 200 \/ reply.body # "json"

C14_CloseClears ==
  client.closes > 0 =>
    /\ client.state = "closed"
    /\ ~session.valid
    /\ client.err = ""
    /\ client.logouts = IF client.logout = "bad url" THEN 0 ELSE 1
    /\ (gwCall.op = "Close" /\ client.closes > 1) => gwCall.sent = 0 /\ wire = NoWire

\* C14 witness: the logout was answered 500, and Close was called again
C14_Witness ==
  /\ client.closes = 2
  /\ client.logout = "500"
  /\ client.logouts = 1
  /\ gwCall.op = "Close"

\* C15 as stated: every API request carries the session id as cookie, the
\* session's csrftoken as X-CSRFToken header, the version and tenant headers,
\* and an operation called without a session sends nothing.
C15_RequestCarriesSession ==
  /\ wire.kind = "api" =>
        /\ session.valid
        /\ wire.cookie = Set(session.SessionID)
        /\ wire.csrf = Set(session.CSRFToken)
        /\ wire.version = Set(AviVersion)
        /\ wire.tenant = Set(AviTenant)
  /\ (gwCall.op \in ClientOps /\ ~session.valid) =>
        /\ gwCall.sent = 0
        /\ wire = NoWire
        /\ gwCall.err = "" => gwCall.op \in CachedOps

\* C15 amended: every API request carries the session id as cookie, the
\* version and tenant headers, and the X-CSRFToken header exactly when the
\* session's csrftoken is not empty, then with that token; an operation called
\* without a session sends nothing.
C15_RequestCarriesSessionAmended ==
  /\ wire.kind = "api" =>
        /\ session.valid
        /\ wire.cookie = Set(session.SessionID)
        /\ wire.csrf = IF session.CSRFToken # "" THEN Set(session.CSRFToken) ELSE Absent
        /\ wire.version = Set(AviVersion)
        /\ wire.tenant = Set(AviTenant)
  /\ (gwCall.op \in ClientOps /\ ~session.valid) =>
        /\ gwCall.sent = 0
        /\ wire = NoWire
        /\ gwCall.err = "" => gwCall.op \in CachedOps

\* C15 witness: a request went out for a session that has no csrftoken
C15_Witness ==
  /\ wire.kind = "api"
  /\ session = SessionNoCsrf
  /\ wire.csrf = Absent
  /\ wire.cookie = Set("sid")

\* C16: the messages an adapter submits are the system turn, then the history
\* turn for turn as the caller passed it, then the new user turn; so there are
\* at least two, and the construction never fails.
C16_SystemHistoryUser ==
  adCall.fn = "buildMessages" =>
    LET m == adCall.out.messages
        h == adCall.in.history.items
    IN /\ adCall.out.err = ""
       /\ Len(m) = Len(h) + 2
       /\ Len(m) >= 2
       /\ m[1] = [Role |-> "system", Content |-> buildSystemPrompt(provider)]
       /\ \A i \in 1..Len(h) : m[i + 1] = h[i]
       /\ m[Len(m)] = [Role |-> "user", Content |-> adCall.in.query]

\* C16 witness: the cloud adapter built the messages from a two-turn history
C16_Witness ==
  /\ adCall.fn = "buildMessages"
  /\ provider = "mistral"
  /\ Len(adCall.in.history.items) = 2
  /\ adCall.in.history.items[1].Role = "user"
  /\ adCall.in.history.items[2].Role = "assistant"
  /\ Len(adCall.out.messages) = 4

\* C17: the local adapter answers every content with the text unchanged; it
\* yields one invocation, named by the "tool" member and carrying the
\* "parameters" object when there is one, exactly when the content is a JSON
\* object with a string "tool", and no invocation otherwise.
C17_EmbeddedJson ==
  adCall.fn = "processLLMResponse" =>
    LET c == adCall.in.content
        r == adCall.out
    IN /\ r.Message.text = c
       /\ r.Message.blocks = << >>
       /\ (c.valid /\ c.object /\ c.hasTool) =>
             /\ Len(r.ToolCalls) = 1
             /\ r.ToolCalls[1].name = c.tool
             /\ c.hasParams => r.ToolCalls[1].args = MkArgs(c.params)
             /\ ~c.hasParams => r.ToolCalls[1].args = NilArgs
       /\ ~(c.valid /\ c.object /\ c.hasTool) => r.ToolCalls = << >>

\* C17 witness: an embedded call of get_virtual_service with its uuid
C17_Witness ==
  /\ adCall.fn = "processLLMResponse"
  /\ adCall.in.content.hasTool
  /\ adCall.in.content.tool = "get_virtual_service"
  /\ adCall.in.content.params = {Str("uuid", "u1")}
  /\ Len(adCall.out.ToolCalls) = 1
  /\ HasString(adCall.out.ToolCalls[1].args, "uuid")

\* C18: the cloud adapter's normalized response has the model's tool calls in
\* order, each with its name and with the arguments the model proposed as the
\* invocation's argument map.
C18_MistralCallsKeepArgs ==
  adCall.fn = "mistralResponse" =>
    /\ Len(adCall.out.ToolCalls) = Len(adCall.in.calls)
    /\ \A i \in 1..Len(adCall.in.calls) :
          /\ adCall.out.ToolCalls[i].name = adCall.in.calls[i].name
          /\ adCall.out.ToolCalls[i].args = adCall.in.calls[i].args

\* C19: the request ChatCompletion sends has the configured model,
\* temperature and max tokens where the caller's request had the zero value,
\* and the caller's value everywhere else.
C19_DefaultsWhenOmitted ==
  adCall.fn = "ChatCompletion" =>
    LET q == adCall.in.req
        r == adCall.out.req
    IN /\ r.Model = IF q.Model = "" THEN CfgDefaultModel(provider) ELSE q.Model
       /\ r.Temperature = IF q.Temperature = 0 THEN CfgTemperature ELSE q.Temperature
       /\ r.MaxTokens = IF q.MaxTokens = 0 THEN CfgMaxTokens ELSE q.MaxTokens

\* C19 witness: a request with its own temperature and no model or max tokens
C19_Witness ==
  /\ adCall.fn = "ChatCompletion"
  /\ adCall.in.req = [Model |-> "", Temperature |-> 2, MaxTokens |-> 0]
  /\ adCall.out.req.Temperature = 2
  /\ adCall.out.req.MaxTokens = CfgMaxTokens

\* the status codes of success
Is2xx(status) == status >= 200 /\ status < 300

\* C20 as stated: an answer with a non-2xx status gives an error carrying the
\* status code and the body, and an answer with a 2xx status gives a decoded
\* response.
C20_Non2xxSurfaced ==
  (adCall.fn \in {"ChatCompletion", "ListModels"} /\ ~adCall.in.reply.transport) =>
    LET reply == adCall.in.reply
        res == adCall.out.res
    IN /\ ~Is2xx(reply.status) =>
             /\ res.err # ""
             /\ res.status = Set(reply.status)
             /\ res.body = Set(reply.body)
       /\ Is2xx(reply.status) => (res.err = "" /\ res.decoded)

\* C20 amended: an answer with any status other than 200, every non-2xx
\* status included, gives an error carrying the status code and the body; an
\* answer with status 200 gives the decoded response when its body decodes
\* and a decode error when it does not.
C20_Non200Surfaced ==
  (adCall.fn \in {"ChatCompletion", "ListModels"} /\ ~adCall.in.reply.transport) =>
    LET reply == adCall.in.reply
        res == adCall.out.res
    IN /\ reply.status # 200 =>
             /\ res.err = "request failed with status"
             /\ ~res.decoded
             /\ res.status = Set(reply.status)
             /\ res.body = Set(reply.body)
       /\ (reply.status = 200 /\ reply.body = "json") => (res.err = "" /\ res.decoded)
       /\ (reply.status = 200 /\ reply.body # "json") =>
             (res.err = "failed to decode response" /\ ~res.decoded)

\* C20 witness: the backend answered 201 and the call returned the status error
C20_Witness ==
  /\ adCall.fn = "ChatCompletion"
  /\ adCall.in.reply.status = 201
  /\ adCall.out.res.err = "request failed with status"
  /\ adCall.out.res.status = Set(201)

\* the adapter the config's provider selects
Selected(cfg) == IF cfg.Provider = "ollama" THEN "llm.Client" ELSE "mistral.Client"

\* C21: loading rejects a config that names the cloud provider without an API
\* key or names an unsupported provider; a Server exists only with exactly
\* one adapter, the one its provider selects; nothing is served without a
\* Server, and every model call goes through the adapter built at construction.
C21_OneAdapterFromConstruction ==
  /\ (boot.state \in {"loaded", "rejected"} /\
      (\/ boot.cfg.Provider = "mistral" /\ boot.cfg.APIKey = ""
       \/ boot.cfg.Provider \notin {"ollama", "mistral"}))
       => (boot.state = "rejected" /\ boot.err # "" /\ pc = "failed")
  /\ boot.state = "serving"
       => /\ boot.cfg.Provider \in {"ollama", "mistral"}
          /\ boot.cfg.Provider = "mistral" => boot.cfg.APIKey # ""
          /\ {boot.llmClient, boot.mistralClient} \ {"nil"} = {Selected(boot.cfg)}
          /\ provider = boot.cfg.Provider
  /\ boot.state # "serving"
       => /\ boot.llmClient = "nil" /\ boot.mistralClient = "nil"
          /\ llmLog = << >> /\ httpResp = NoHttp /\ handler = "none"
  /\ \A i \in 1..Len(llmLog) :
       boot.state = "serving" /\ llmLog[i].adapter = Selected(boot.cfg)

\* C21 witness: a Server built for the cloud provider has answered a request
\* after its adapter was called for the chat completion.
C21_Witness ==
  /\ boot.state = "serving" /\ boot.cfg.Provider = "mistral"
  /\ httpResp.status = 200
  /\ \E i \in 1..Len(llmLog) :
       llmLog[i].call = "ChatCompletion" /\ llmLog[i].adapter = "mistral.Client"

\* the Gateway operation behind each list tool
ListOpOf(name) ==
  CASE name = "list_virtual_services" -> "ListVirtualServices"
    [] name = "list_pools" -> "ListPools"
    [] name = "list_health_monitors" -> "ListHealthMonitors"
    [] name = "list_service_engines" -> "ListServiceEngines"

\* C23: an invocation of one of the four list tools always calls its Gateway
\* operation, and the query parameters it passes are exactly the arguments
\* whose value is a string, each under its key with its value unchanged; an
\* argument of another type is left out and refuses nothing.
C23_ListParamsAreStringArgs ==
  \A i \in 1..Len(execLog) :
    execLog[i].name \in ListTools =>
      /\ execLog[i].op = ListOpOf(execLog[i].name)
      /\ execLog[i].params =
           { <<e[1], e[3]>> : e \in {x \in execLog[i].args.kv : x[2] = "string"} }
      /\ \A q \in execLog[i].params :
           \E e \in execLog[i].args.kv : e[2] = "string" /\ e[1] = q[1] /\ e[3] = q[2]

\* C23 witness: a list tool was invoked with a string argument and a boolean
\* one, and its operation was sent with the string one alone.
C23_Witness ==
  \E i \in 1..Len(execLog) :
    /\ execLog[i].name = "list_pools"
    /\ \E e \in execLog[i].args.kv : e[2] # "string"
    /\ execLog[i].params = {<<"fields", "f">>}
    /\ execLog[i].sent = 1

\* the chat completions the adapter was asked for while serving the request
ChatCompletions == { i \in 1..Len(llmLog) : llmLog[i].call = "ChatCompletion" }

\* C24: nothing is retried. The k-th Gateway call of a request serves the
\* k-th proposed invocation, so no invocation is dispatched twice, failed or
\* not; a Gateway operation sends at most one backend request; and the model
\* backend is asked for one chat completion per turn, exactly one once the
\* turn has got past the model call, whether it failed or answered.
C24_NoRetry ==
  /\ Len(execLog) <= Len(llmResponse.ToolCalls)
  /\ \A i \in 1..Len(execLog) :
       /\ execLog[i].index = i
       /\ execLog[i].name = llmResponse.ToolCalls[i].name
       /\ execLog[i].sent <= 1
       /\ execLog[i].op = "none" => execLog[i].sent = 0
  /\ Cardinality(ChatCompletions) <= 1
  /\ (pc = "dispatch" \/ (pc = "idle" /\ (ModelAnswered \/ ModelFailed)))
       => Cardinality(ChatCompletions) = 1
  /\ httpResp.status = 200 => Cardinality(ChatCompletions) = 1

\* C24 witness: a request is answered after an invocation failed at the
\* backend and the next one was dispatched.
C24_Witness ==
  /\ httpResp.status = 200
  /\ Len(execLog) = 2
  /\ execLog[1].err # "" /\ execLog[1].sent = 1
  /\ execLog[2].sent = 1

\* C30: in the response processChatMessage returns, every tool call has the
\* name and the argument map the adapter produced for it, the uuid of an
\* update or scale invocation included.
C30_InvocationsUnchanged ==
  httpResp.status = 200 =>
    /\ Len(httpResp.body.ToolCalls) = Len(execLog)
    /\ \A i \in 1..Len(execLog) :
         /\ httpResp.body.ToolCalls[i].name = execLog[i].name
         /\ httpResp.body.ToolCalls[i].args = execLog[i].args

\* C27: an operation called after Close has returned fails with the
\* not-authenticated error, a cached list operation included.
C27_NothingSucceedsAfterClose ==
  (client.state = "closed" /\ gwCall.op \in ClientOps)
    => (gwCall.err = "not authenticated" /\ gwCall.sent = 0)

\* C26: every request the Gateway sends is built on the context its caller
\* supplied, the login request of NewClient and the logout request of Close
\* included.
C26_EveryRequestCarriesContext ==
  wire.kind # "none" => wire.ctx = "caller"

\* C29: two requests have the same cache key exactly when they have the same
\* method, the same endpoint and the same parameter map.
C29_CacheKeyInjective ==
  adCall.fn = "getCacheKey" =>
    (adCall.out.ka = adCall.out.kb <=> adCall.in.a = adCall.in.b)

\* the cache key of a call of a cached list operation
CallKey(call) ==
  getCacheKey("GET", IF call.op = "ListVirtualServices" THEN "/virtualservice"
                     ELSE "/pool", call.params)

\* a step that is a call of a cached list operation which returned an error
FailedCachedList ==
  now' = now /\ gwCall'.op \in CachedOps /\ gwCall'.err # ""

\* C25 as stated: a cached list operation whose request fails leaves the cache
\* as it was before the call.
C25_FailureLeavesCache ==
  [][FailedCachedList => store' = store]_vars

\* C25: a cached list operation whose request fails (transport error, status
\* other than 200, undecodable body) returns the error and writes nothing to
\* the cache: every entry left is an entry that was there, and the only entry
\* that may be gone is the expired entry of the call's own key, which the
\* lookup removed before the request; no entry is left under the key, and a
\* call that repeats the failed one sends a new request.
C25_FailureWritesNothing ==
  [][/\ FailedCachedList =>
          /\ gwCall'.sent = 1
          /\ CallKey(gwCall') \notin DOMAIN store'
          /\ \A k \in DOMAIN store' : k \in DOMAIN store /\ store'[k] = store[k]
          /\ \A k \in DOMAIN store \ DOMAIN store' :
                k = CallKey(gwCall') /\ now > store[k].expiresAt
     /\ (/\ gwCall.op \in CachedOps /\ gwCall.err # "" /\ now' = now
         /\ gwCall'.op = gwCall.op /\ gwCall'.params = gwCall.params)
          => gwCall'.sent = 1
    ]_vars

\* C25 witness: a cached list call failed at the backend after the entry of
\* an earlier, successful identical call had expired, and no entry is left
\* under its key while another operation's entry is still cached.
C25_Witness ==
  /\ gwCall.op = "ListVirtualServices" /\ gwCall.err # "" /\ gwCall.sent = 1
  /\ gwCall.prev = "expired"
  /\ CallKey(gwCall) \notin DOMAIN store
  /\ store # EmptyStore

\* C22: whatever the interleaving of concurrent requests and Close, no
\* goroutine dereferences a cleared session, and every request about to be
\* sent carries the session authenticate stored.
C22_SessionSafeUnderConcurrency ==
  \A g \in DOMAIN procs :
    /\ procs[g].pc # "panic"
    /\ procs[g].pc = "send" => procs[g].cookie = Set(TheSession.SessionID)

\* C28: the entry a lookup deletes is expired at the moment it is deleted; an
\* entry setCache wrote after the lookup read the expired one is not removed.
C28_LookupDeletesOnlyExpired ==
  \A g \in DOMAIN procs : procs[g].victim # "fresh"

====
